---- MODULE Spec2Model ----
(***************************************************************************)
(* A state-machine model of the Dropdown widget of src/dropdown.js.        *)
(*                                                                         *)
(* One instance of Dropdown is modelled together with the parts of the     *)
(* host page it touches: the catalyst element, the document, the fx queue  *)
(* of the dropdown root, the browser's timers and the listeners bound      *)
(* through jQuery.  The jQuery calls are modelled by what jQuery (1.8 and  *)
(* later, the versions the source refers to) does:                         *)
(*   - fadeIn/fadeOut append an animation to the element's fx queue; the   *)
(*     head of the queue is the animation in flight, and the element is    *)
(*     ":animated" exactly while the queue is not empty;                   *)
(*   - a fade-in makes a hidden element displayed when it starts, a        *)
(*     fade-out makes it display:none when it completes; the completion    *)
(*     callback runs, then the next queued animation starts;               *)
(*   - a fade of duration 0 starts and completes inside the call;          *)
(*   - on/one/off/trigger work on (element, event type) bindings.          *)
(* Every handler is an operator from a state record to a state record, so  *)
(* that a handler calling another handler is the composition of the two;   *)
(* an action applies one handler to the current state.                     *)
(***************************************************************************)
EXTENDS Integers, Sequences, FiniteSets, TLC

(***************************************************************************)
(* Bounds of the model.                                                    *)
(***************************************************************************)
MaxQueue == 3
MaxContent == 2
MaxSubs == 1
MaxTimers == 2
MaxPageSubs == 2

VARIABLES
  anchorPoint,                  \* this.anchorPoint, a string as a sequence of symbols
  catalystActiveClass,          \* this.catalystActiveClass: a class name, or "" for null
  fadeEffectDuration,           \* this.fadeEffectDuration
  isManualShowEnabled,          \* this.isManualShowEnabled
  isMouseBoundaryDetectionEnabled, \* this.isMouseBoundaryDetectionEnabled
  isMouseCursorInsideDropdown,  \* this.isMouseCursorInsideDropdown
  positionOffset,               \* this.positionOffset, in half pixels
  hideTimer,                    \* this.hideTimer: 0 when unset, else a timer id
  timers,                       \* the browser's pending timeouts (ids)
  catalystBox,                  \* layout of the catalyst: offset() and outer size, in half pixels
  catalystHasActiveClass,       \* the catalyst element carries the active class
  document,                     \* the nodes attached to the document
  display,                      \* the dropdown root is displayed (not display:none)
  fxQueue,                      \* the fx queue of the dropdown root; its head is in flight
  rootCss,                      \* top/left/bottom/right of the dropdown root
  content,                      \* children of the content container
  bound,                        \* the listeners bound by this instance
  destroyed,                    \* destroy() has returned
  lastOp,                       \* the operation or event of the last step
  emitted,                      \* custom events fired during the last step, in order
  invoked,                      \* handlers and callbacks run during the last step
  logged,                       \* messages written by _throwError during the last step
  threw,                        \* the last step ended with an exception reaching the caller
  ret,                          \* what the last call returned
  tog,                          \* bookkeeping of consecutive toggle() calls
  rendered,                     \* the content passed to the last call, when it was render
  reentered,                    \* a mouseenter was handled since the pending timer started
  elements,                     \* this.elements, and whether the constructor set it
  clickTarget,                  \* where the click of the last step landed, "" when it was no click
  pendingHides,                 \* what asked for a hide since the last show or toggle
  reshown,                      \* the dropdown was hidden and shown again since the pending timer started
  page,                         \* several instances on one page: their ids, listeners, data
  pageStep                      \* the last step among several instances

vars == <<anchorPoint, catalystActiveClass, fadeEffectDuration, isManualShowEnabled,
          isMouseBoundaryDetectionEnabled, isMouseCursorInsideDropdown, positionOffset,
          hideTimer, timers, catalystBox, catalystHasActiveClass, document, display,
          fxQueue, rootCss, content, bound, destroyed, lastOp, emitted, invoked, logged,
          threw, ret, tog, rendered, reentered, elements, clickTarget,
          pendingHides, reshown, page, pageStep>>

(***************************************************************************)
(* Values.                                                                 *)
(***************************************************************************)
\* A configuration value that is absent or not a number.
NotNumeric == 0 - 1000

\* The custom events of the widget (the @events list of the constructor).
CustomEvents == {"beforeHide", "beforeShow", "destroy", "hide", "hideAfterResize",
                 "initialize", "mouseEnterDropdown", "mouseLeaveDropdown",
                 "position", "render", "show"}

\* The nodes _buildStructure creates, and the tag of every node.
RootEl == "rootEl"
ContentEl == "contentEl"
TagOf(node) == "div"

\* The keys of this.elements.
ElementKeys == {"root", "content"}

\* A CSS length: a number of pixels, "auto", or not set.
Px(n) == [kind |-> "px", n |-> n]
Auto == [kind |-> "auto", n |-> 0]
Unset == [kind |-> "unset", n |-> 0]

\* The state the handlers work on: the variables as one record.
Cur ==
  [anchorPoint |-> anchorPoint,
   catalystActiveClass |-> catalystActiveClass,
   fadeEffectDuration |-> fadeEffectDuration,
   isManualShowEnabled |-> isManualShowEnabled,
   isMouseBoundaryDetectionEnabled |-> isMouseBoundaryDetectionEnabled,
   isMouseCursorInsideDropdown |-> isMouseCursorInsideDropdown,
   positionOffset |-> positionOffset,
   hideTimer |-> hideTimer,
   timers |-> timers,
   catalystBox |-> catalystBox,
   catalystHasActiveClass |-> catalystHasActiveClass,
   document |-> document,
   display |-> display,
   fxQueue |-> fxQueue,
   rootCss |-> rootCss,
   content |-> content,
   bound |-> bound,
   elements |-> elements,
   emitted |-> emitted,
   invoked |-> invoked,
   logged |-> logged,
   threw |-> threw]

\* The state at the start of a step: nothing fired, run, logged or thrown yet.
Begin == [Cur EXCEPT !.emitted = <<>>, !.invoked = {}, !.logged = <<>>, !.threw = FALSE]

(***************************************************************************)
(* Logging and the event channel.                                          *)
(***************************************************************************)
\* _throwError writes the message to the console and returns; it throws nothing.
_throwError(s, message) == [s EXCEPT !.logged = Append(@, message)]

\* The bindings of an element for an event type.  Every binding of the
\* instance carries the instance's namespace (_getEventName), so a binding is
\* identified here by element, type and handler.
HandlersOf(s, elem, type) == {b \in s.bound : b.elem = elem /\ b.type = type}

\* jQuery runs the subscriber callbacks among the bindings hs and unbinds the
\* ones bound with one().
RunCallbacks(s, hs) ==
  [s EXCEPT !.invoked = @ \cup {b.fn : b \in hs},
            !.bound = @ \ {b \in hs : b.once}]

\* catalyst.trigger(eventName + "." + namespace, this)
_fireCustomEvent(s, eventName) ==
  RunCallbacks([s EXCEPT !.emitted = Append(@, eventName)],
               HandlersOf(s, "catalyst", eventName))

(***************************************************************************)
(* Visibility and the fx queue of the dropdown root.                       *)
(***************************************************************************)
\* isVisible(): this.elements.root.is(":visible"), and false when reading
\* it throws (this.elements is undefined, or its root is null).
isVisible(s) ==
  /\ s.elements.defined
  /\ s.elements.root # "null"
  /\ s.elements.root \in s.document
  /\ s.display

\* rootEl.is(":animated")
IsAnimated(s) == s.fxQueue # <<>>

\* The head of the queue starts: a fade-in displays a hidden element at once.
StartFade(s) ==
  IF Head(s.fxQueue) = "in" THEN [s EXCEPT !.display = TRUE] ELSE s

\* The animation in flight completes, a fade-out leaving the root displayed.
CompleteFade_noHide(s) ==
  LET kind == Head(s.fxQueue)
      s1 == [s EXCEPT !.display = TRUE]
      s2 == _fireCustomEvent(s1, IF kind = "in" THEN "show" ELSE "hide")
      s3 == [s2 EXCEPT !.fxQueue = Tail(@)]
  IN IF s3.fxQueue # <<>> THEN StartFade(s3) ELSE s3

\* The animation in flight completes: a fade-out ends in display:none, the
\* completion callback fires "show" or "hide", then the next animation starts.
CompleteFade(s) ==
  LET kind == Head(s.fxQueue)
      s1 == [s EXCEPT !.display = (kind = "in")]
      s2 == _fireCustomEvent(s1, IF kind = "in" THEN "show" ELSE "hide")
      s3 == [s2 EXCEPT !.fxQueue = Tail(@)]
  IN IF s3.fxQueue # <<>> THEN StartFade(s3) ELSE s3

\* rootEl.fadeIn / rootEl.fadeOut with this.fadeEffectDuration and the
\* callback that fires "show" / "hide".  Every fade of the instance has the
\* same duration, so with duration 0 the queue is empty at every call.
Fade(s, kind) ==
  LET s1 == [s EXCEPT !.fxQueue = Append(@, kind)]
  IN IF s.fxQueue # <<>> THEN s1
     ELSE IF s.fadeEffectDuration = 0 THEN CompleteFade(StartFade(s1))
     ELSE StartFade(s1)

\* hide(), with the guard removed.
hide_unguarded(s) ==
  LET s1 == _fireCustomEvent(s, "beforeHide")
      s2 == [s1 EXCEPT !.catalystHasActiveClass =
                          IF s.catalystActiveClass # "" THEN FALSE ELSE @]
  IN Fade(s2, "out")

hide(s) ==
  IF ~IsAnimated(s)
  THEN LET s1 == _fireCustomEvent(s, "beforeHide")
           s2 == [s1 EXCEPT !.catalystHasActiveClass =
                               IF s.catalystActiveClass # "" THEN FALSE ELSE @]
       IN Fade(s2, "out")
  ELSE s

\* cancelHide()
cancelHide(s) ==
  IF s.hideTimer # 0
  THEN [s EXCEPT !.timers = @ \ {s.hideTimer}, !.hideTimer = 0]
  ELSE s

(***************************************************************************)
(* Positioning.  Lengths the layout reports and the position offset are in *)
(* half pixels, so that Math.round and parseInt have something to do.      *)
(***************************************************************************)
\* $(window).width(), in pixels
WindowWidth == 20

\* Math.round of h half pixels: floor(x + 0.5)
MathRound(h) == (h + 1) \div 2

\* parseInt(x, 10) of the number h half pixels: the digits before the point
ParseInt(h) == IF h >= 0 THEN h \div 2 ELSE 0 - ((0 - h) \div 2)

\* $.isNumeric
IsNumeric(v) == v # NotNumeric

\* _getCatalystPosition(), in pixels
_getCatalystPosition(s) ==
  [x |-> MathRound(s.catalystBox.left), y |-> MathRound(s.catalystBox.top),
   w |-> MathRound(s.catalystBox.width), h |-> MathRound(s.catalystBox.height)]

getCatalystPosition(s) == _getCatalystPosition(s)

\* String.prototype.split(" ")
RECURSIVE split(_)
split(str) ==
  IF \A i \in 1..Len(str) : str[i] # " " THEN <<str>>
  ELSE LET i == CHOOSE k \in 1..Len(str) :
                  str[k] = " " /\ \A j \in 1..(k - 1) : str[j] # " "
       IN <<SubSeq(str, 1, i - 1)>> \o split(SubSeq(str, i + 1, Len(str)))

\* The keys of this.anchorPointStrategies ("above" is commented out).
StrategyNames == {<<"below">>, <<"left">>, <<"right">>}

\* this.anchorPointStrategies[strategy](), with "below" forgetting the
\* catalyst's height.
anchorPointStrategies_noHeight(s, strategy) ==
  LET catalystPosition == _getCatalystPosition(s)
  IN IF strategy = <<"below">>
     THEN [k \in {"top", "bottom"} |->
             IF k = "top"
             THEN Px(ParseInt(s.positionOffset.y + 2 * catalystPosition.y))
             ELSE Auto]
     ELSE IF strategy = <<"left">>
     THEN [k \in {"left", "right"} |->
             IF k = "left"
             THEN Px(ParseInt(s.positionOffset.x + 2 * catalystPosition.x))
             ELSE Auto]
     ELSE [k \in {"left", "right"} |->
             IF k = "right"
             THEN Px(ParseInt(2 * WindowWidth - ((0 - s.positionOffset.x)
                        + 2 * catalystPosition.x + 2 * catalystPosition.w)))
             ELSE Auto]

\* this.anchorPointStrategies[strategy](), for a strategy of StrategyNames
anchorPointStrategies(s, strategy) ==
  LET catalystPosition == _getCatalystPosition(s)
  IN IF strategy = <<"below">>
     THEN [k \in {"top", "bottom"} |->
             IF k = "top"
             THEN Px(ParseInt(s.positionOffset.y + 2 * catalystPosition.y
                              + 2 * catalystPosition.h))
             ELSE Auto]
     ELSE IF strategy = <<"left">>
     THEN [k \in {"left", "right"} |->
             IF k = "left"
             THEN Px(ParseInt(s.positionOffset.x + 2 * catalystPosition.x))
             ELSE Auto]
     ELSE [k \in {"left", "right"} |->
             IF k = "right"
             THEN Px(ParseInt(2 * WindowWidth - ((0 - s.positionOffset.x)
                        + 2 * catalystPosition.x + 2 * catalystPosition.w)))
             ELSE Auto]

\* $.extend(css, more)
Extend(css, more) ==
  [k \in (DOMAIN css) \cup (DOMAIN more) |->
     IF k \in DOMAIN more THEN more[k] ELSE css[k]]

\* The $.each loop of _getPositionByAnchorPoint over defined strategies.
RECURSIVE ExtendEach(_, _, _)
ExtendEach(s, css, strategies) ==
  IF strategies = <<>> THEN css
  ELSE ExtendEach(s, Extend(css, anchorPointStrategies(s, Head(strategies))),
                  Tail(strategies))

EmptyCss == [k \in {} |-> Unset]

\* _getPositionByAnchorPoint(): the css to apply, the state after logging,
\* threw when a token names no strategy (calling undefined is a TypeError).
_getPositionByAnchorPoint(s) ==
  LET strategies == split(s.anchorPoint)
      s1 == IF Len(strategies) # 2
            THEN _throwError(s, "anchor point is invalid")
            ELSE s
  IN IF \E i \in 1..Len(strategies) : strategies[i] \notin StrategyNames
     THEN [st |-> [s1 EXCEPT !.threw = TRUE], css |-> EmptyCss]
     ELSE LET css == ExtendEach(s1, EmptyCss, strategies)
          IN [st |-> IF DOMAIN css = {}
                     THEN _throwError(s1, "could not determine dropdown position from anchor point")
                     ELSE s1,
              css |-> css]

\* _setPosition()
_setPosition(s) ==
  LET r == _getPositionByAnchorPoint(s)
  IN IF r.st.threw THEN r.st
     ELSE _fireCustomEvent([r.st EXCEPT !.rootCss = Extend(@, r.css)], "position")

setPosition(s) == _setPosition(s)

\* setPositionOffset(x, y)
setPositionOffset(s, x, y) ==
  [s EXCEPT !.positionOffset = [x |-> IF IsNumeric(x) THEN x ELSE @.x,
                                y |-> IF IsNumeric(y) THEN y ELSE @.y]]

(***************************************************************************)
(* show, toggle, render, clear.                                            *)
(***************************************************************************)
\* show(), forgetting to fire beforeShow.
show_noBeforeShow(s) ==
  LET s1 == setPosition(s)
  IN IF s1.threw THEN s1
     ELSE Fade([s1 EXCEPT !.catalystHasActiveClass =
                             IF s.catalystActiveClass # "" THEN TRUE ELSE @], "in")

\* show()
show(s) ==
  LET s1 == setPosition(s)
  IN IF s1.threw THEN s1
     ELSE LET s2 == _fireCustomEvent(s1, "beforeShow")
              s3 == [s2 EXCEPT !.catalystHasActiveClass =
                                  IF s.catalystActiveClass # "" THEN TRUE ELSE @]
          IN Fade(s3, "in")

\* _toggle(): the state after the call and the value returned
_toggle(s) ==
  IF isVisible(s)
  THEN [st |-> hide(s), ret |-> FALSE]
  ELSE [st |-> show(s), ret |-> TRUE]

toggle(s) == _toggle(s)

\* clear()
clear(s) == [s EXCEPT !.content = <<>>]

\* render(content, isAppend), never clearing the existing content.
render_noClear(s, x, isAppend) ==
  IF x # ""
  THEN [st |-> _fireCustomEvent([s EXCEPT !.content = Append(@, x)], "render"), ret |-> TRUE]
  ELSE [st |-> s, ret |-> FALSE]

\* render(content, isAppend); content "" stands for every falsy content
render(s, x, isAppend) ==
  IF x # ""
  THEN LET s1 == IF ~isAppend THEN clear(s) ELSE s
           s2 == [s1 EXCEPT !.content = Append(@, x)]
       IN [st |-> _fireCustomEvent(s2, "render"), ret |-> TRUE]
  ELSE [st |-> s, ret |-> FALSE]

\* getRootElement(): the node or "null"; reading this.elements.root throws
\* a TypeError when this.elements is undefined.
getRootElement(s) ==
  IF ~s.elements.defined
  THEN [st |-> [s EXCEPT !.threw = TRUE], ret |-> "undefined"]
  ELSE [st |-> s, ret |-> s.elements.root]

(***************************************************************************)
(* Mouse-boundary detection and the hide timer.                            *)
(***************************************************************************)
\* _setMouseCursorInsideDropdown(isInside)
_setMouseCursorInsideDropdown(s, isInside) ==
  IF isInside
  THEN _fireCustomEvent([s EXCEPT !.isMouseCursorInsideDropdown = TRUE], "mouseEnterDropdown")
  ELSE _fireCustomEvent([s EXCEPT !.isMouseCursorInsideDropdown = FALSE], "mouseLeaveDropdown")

\* setTimeout returns an id no pending timer has.
NewTimerId(s) ==
  CHOOSE n \in 1..(Cardinality(s.timers) + 1) :
    n \notin s.timers /\ \A m \in 1..(n - 1) : m \in s.timers

\* The function the mouseleave handler hands to setTimeout.
HideTimerCallback(s) ==
  cancelHide(IF ~s.isMouseCursorInsideDropdown THEN hide(s) ELSE s)

\* The mouseenter handler of the dropdown root.
MouseenterHandler(s) == _setMouseCursorInsideDropdown(s, TRUE)

\* The mouseleave handler of the dropdown root, starting a timer whether or
\* not one is pending.
MouseleaveHandler_noCheck(s) ==
  LET s1 == _setMouseCursorInsideDropdown(s, FALSE)
  IN IF isVisible(s1)
     THEN LET id == NewTimerId(s1)
          IN [s1 EXCEPT !.hideTimer = id, !.timers = @ \cup {id}]
     ELSE s1

\* The mouseleave handler of the dropdown root.
MouseleaveHandler(s) ==
  LET s1 == _setMouseCursorInsideDropdown(s, FALSE)
  IN IF s1.hideTimer = 0 /\ isVisible(s1)
     THEN LET id == NewTimerId(s1)
          IN [s1 EXCEPT !.hideTimer = id, !.timers = @ \cup {id}]
     ELSE s1

(***************************************************************************)
(* The other internal handlers.                                            *)
(***************************************************************************)
\* The resize handler bound to window.
ResizeHandler(s) ==
  IF isVisible(s) THEN hide(_fireCustomEvent(s, "hideAfterResize")) ELSE s

\* Where a click can land: inside the catalyst, inside this instance's
\* dropdown root, inside the root of another Dropdown (it carries the same
\* class, namespace.css), or anywhere else.
ClickTargets == {"catalyst", "ownRoot", "otherRoot", "outside"}

\* The click handler bound to document.body.
BodyClickHandler(s, target) ==
  IF isVisible(s) /\ ~(target = "catalyst" \/ target \in {"ownRoot", "otherRoot"})
  THEN hide(s)
  ELSE s

\* The click handler bound to the catalyst.
CatalystClickHandler(s) == _toggle(s).st

(***************************************************************************)
(* Dispatch of the browser's events to the bound listeners.                *)
(***************************************************************************)
InternalFns == {"catalystClick", "rootMouseenter", "rootMouseleave", "windowResize", "bodyClick"}

Binding(elem, type, fn, once) == [elem |-> elem, type |-> type, fn |-> fn, once |-> once]

IsBound(s, elem, type, fn) == \E b \in s.bound : b.elem = elem /\ b.type = type /\ b.fn = fn

Ran(s, fn) == [s EXCEPT !.invoked = @ \cup {fn}]

\* A click reaches document.body (it bubbles there from every target).
DispatchBodyClick(s, target) ==
  IF IsBound(s, "body", "click", "bodyClick")
  THEN BodyClickHandler(Ran(s, "bodyClick"), target)
  ELSE s

\* A click on the catalyst: the catalyst's click listeners in the order they
\* were bound (the widget's own first), then document.body.  An exception
\* leaving a listener ends the dispatch.
DispatchCatalystClick(s) ==
  LET s1 == IF IsBound(s, "catalyst", "click", "catalystClick")
            THEN CatalystClickHandler(Ran(s, "catalystClick"))
            ELSE s
  IN IF s1.threw THEN s1
     ELSE DispatchBodyClick(
            RunCallbacks(s1, {b \in HandlersOf(s1, "catalyst", "click") : b.fn \notin InternalFns}),
            "catalyst")

DispatchResize(s) ==
  IF IsBound(s, "window", "resize", "windowResize")
  THEN ResizeHandler(Ran(s, "windowResize"))
  ELSE s

DispatchMouseenter(s) ==
  IF IsBound(s, "root", "mouseenter", "rootMouseenter")
  THEN MouseenterHandler(Ran(s, "rootMouseenter"))
  ELSE s

DispatchMouseleave(s) ==
  IF IsBound(s, "root", "mouseleave", "rootMouseleave")
  THEN MouseleaveHandler(Ran(s, "rootMouseleave"))
  ELSE s

(***************************************************************************)
(* subscribe, unsubscribe, destroy.                                        *)
(***************************************************************************)
\* The callbacks and event names subscribers use here.
Callbacks == {"cb1"}
SubscribeNames == {"hide", "click"}

\* subscribe(eventName, callback, once)
subscribe(s, eventName, callback, once) ==
  [s EXCEPT !.bound = @ \cup {Binding("catalyst", eventName, callback, once = TRUE)}]

\* unsubscribe(eventName, callback); callback "undefined" when omitted
unsubscribe(s, eventName, callback) ==
  [s EXCEPT !.bound = @ \ {b \in HandlersOf(s, "catalyst", eventName) :
                             callback = "undefined" \/ b.fn = callback}]

\* $(selector).remove() for a tag selector: the matching nodes leave the document.
RemoveBySelector(doc, selector) == doc \ {n \in doc : TagOf(n) = selector}

\* destroy(): the loop variable of "for (var el in this.elements)" is the
\* key, and $(el) selects by tag name.
destroy(s) ==
  LET s1 == _fireCustomEvent(s, "destroy")
      s2 == [s1 EXCEPT !.bound = {b \in @ : b.elem # "catalyst"}]
  IN [s2 EXCEPT !.document = RemoveBySelector(RemoveBySelector(@, "root"), "content")]

(***************************************************************************)
(* Construction.                                                           *)
(***************************************************************************)
\* isString of _applyConfiguration, for a string given as a sequence of symbols
IsString(str) == \E i \in 1..Len(str) : str[i] # " "

\* The properties the constructor sets before _initialize (lines 63-79),
\* with the page around the instance.
ClassProperties(box) ==
  [anchorPoint |-> <<"left", " ", "below">>,
   catalystActiveClass |-> "",
   fadeEffectDuration |-> 200,
   isManualShowEnabled |-> FALSE,
   isMouseBoundaryDetectionEnabled |-> TRUE,
   isMouseCursorInsideDropdown |-> FALSE,
   positionOffset |-> [x |-> 0, y |-> 0],
   hideTimer |-> 0,
   timers |-> {},
   catalystBox |-> box,
   catalystHasActiveClass |-> FALSE,
   document |-> {},
   display |-> FALSE,
   fxQueue |-> <<>>,
   rootCss |-> [k \in {"top", "bottom", "left", "right"} |-> Unset],
   content |-> <<>>,
   bound |-> {},
   elements |-> [defined |-> TRUE, root |-> "null", content |-> "null"],
   emitted |-> <<>>,
   invoked |-> {},
   logged |-> <<>>,
   threw |-> FALSE]

\* The object "new" hands to the constructor: no property is set yet.  The
\* fields other than elements stand for properties that do not exist; no
\* method is applied to such an object but the two queries.
NoProperties(box) ==
  [ClassProperties(box) EXCEPT !.elements = [defined |-> FALSE, root |-> "null", content |-> "null"]]

\* _applyConfiguration(config)
_applyConfiguration(s, config) ==
  [s EXCEPT
     !.anchorPoint = IF IsString(config.anchorPoint) THEN config.anchorPoint ELSE @,
     !.catalystActiveClass = IF config.catalystActiveClass # "" THEN config.catalystActiveClass ELSE @,
     !.fadeEffectDuration = IF IsNumeric(config.fadeEffectDuration) THEN config.fadeEffectDuration ELSE @,
     !.isMouseBoundaryDetectionEnabled = ~(config.mouseBoundaryDetectionEnabled = "false"),
     !.isManualShowEnabled = (config.manualShowEnabled = "true")]

\* _buildStructure(): the root is created hidden and appended to the body.
_buildStructure(s) ==
  [s EXCEPT !.document = @ \cup {RootEl, ContentEl}, !.display = FALSE,
            !.elements = [defined |-> TRUE, root |-> RootEl, content |-> ContentEl]]

\* _initializeCatalyst()
_initializeCatalyst(s) ==
  IF ~s.isManualShowEnabled
  THEN [s EXCEPT !.bound = @ \cup {Binding("catalyst", "click", "catalystClick", FALSE)}]
  ELSE s

\* _initializeMouseBoundaryDetection(), binding whatever the configuration says.
_initializeMouseBoundaryDetection_always(s) ==
  [s EXCEPT !.bound = @ \cup {Binding("root", "mouseenter", "rootMouseenter", FALSE),
                              Binding("root", "mouseleave", "rootMouseleave", FALSE)}]

\* _initializeMouseBoundaryDetection()
_initializeMouseBoundaryDetection(s) ==
  IF s.isMouseBoundaryDetectionEnabled
  THEN [s EXCEPT !.bound = @ \cup {Binding("root", "mouseenter", "rootMouseenter", FALSE),
                                   Binding("root", "mouseleave", "rootMouseleave", FALSE)}]
  ELSE s

\* _initialize(config)
_initialize(s, config) ==
  LET s1 == _initializeMouseBoundaryDetection(
              _initializeCatalyst(_buildStructure(_applyConfiguration(s, config))))
      s2 == [s1 EXCEPT !.bound = @ \cup {Binding("window", "resize", "windowResize", FALSE),
                                         Binding("body", "click", "bodyClick", FALSE)}]
  IN _fireCustomEvent(s2, "initialize")

\* What callers pass as the catalyst: a jQuery set with an element, an empty
\* jQuery set, or nothing.
CatalystInputs == {"element", "empty", "undefined"}

\* new Dropdown(catalyst, config) for a catalyst laid out as box: without a
\* catalyst the constructor logs and returns before it sets any property.
Dropdown(catalyst, box, config) ==
  IF catalyst \in {"empty", "undefined"}
  THEN _throwError(NoProperties(box), "no catalyst specified")
  ELSE _initialize(ClassProperties(box), config)

(***************************************************************************)
(* The state machine.                                                      *)
(***************************************************************************)
NoTog == [n |-> 0, orig |-> FALSE, ret |-> FALSE]

BoolStr(b) == IF b THEN "true" ELSE "false"

\* The state after construction.
InitInstance(s) ==
     /\ anchorPoint = s.anchorPoint
     /\ catalystActiveClass = s.catalystActiveClass
     /\ fadeEffectDuration = s.fadeEffectDuration
     /\ isManualShowEnabled = s.isManualShowEnabled
     /\ isMouseBoundaryDetectionEnabled = s.isMouseBoundaryDetectionEnabled
     /\ isMouseCursorInsideDropdown = s.isMouseCursorInsideDropdown
     /\ positionOffset = s.positionOffset
     /\ hideTimer = s.hideTimer
     /\ timers = s.timers
     /\ catalystBox = s.catalystBox
     /\ catalystHasActiveClass = s.catalystHasActiveClass
     /\ document = s.document
     /\ display = s.display
     /\ fxQueue = s.fxQueue
     /\ rootCss = s.rootCss
     /\ content = s.content
     /\ bound = s.bound
     /\ emitted = s.emitted
     /\ invoked = s.invoked
     /\ logged = s.logged
     /\ threw = s.threw
     /\ destroyed = FALSE
     /\ lastOp = "new"
     /\ ret = "undefined"
     /\ tog = NoTog
     /\ rendered = ""
     /\ reentered = FALSE
     /\ elements = s.elements
     /\ clickTarget = ""
     /\ pendingHides = {}
     /\ reshown = FALSE

\* One instance alone on its page.
InitFrom(s) ==
  /\ InitInstance(s)
  /\ page = [instances |-> <<>>, handlers |-> {}, data |-> <<>>]
  /\ pageStep = [op |-> "", inst |-> 0, invoked |-> {}, removed |-> {}]

InitOf(box, config) == InitFrom(Dropdown("element", box, config))

\* The subscriber bindings of a state.
Subscriptions(s) == {b \in s.bound : b.fn \notin InternalFns}

\* The step to state s by operation op, which returned r.
Commit(s, op, r, tg) ==
  /\ Len(s.fxQueue) <= MaxQueue
  /\ Len(s.content) <= MaxContent
  /\ Cardinality(s.timers) <= MaxTimers
  /\ Cardinality(Subscriptions(s)) <= MaxSubs
  /\ anchorPoint' = s.anchorPoint
  /\ catalystActiveClass' = s.catalystActiveClass
  /\ fadeEffectDuration' = s.fadeEffectDuration
  /\ isManualShowEnabled' = s.isManualShowEnabled
  /\ isMouseBoundaryDetectionEnabled' = s.isMouseBoundaryDetectionEnabled
  /\ isMouseCursorInsideDropdown' = s.isMouseCursorInsideDropdown
  /\ positionOffset' = s.positionOffset
  /\ hideTimer' = s.hideTimer
  /\ timers' = s.timers
  /\ catalystBox' = s.catalystBox
  /\ catalystHasActiveClass' = s.catalystHasActiveClass
  /\ document' = s.document
  /\ display' = s.display
  /\ fxQueue' = s.fxQueue
  /\ rootCss' = s.rootCss
  /\ content' = s.content
  /\ bound' = s.bound
  /\ emitted' = s.emitted
  /\ invoked' = s.invoked
  /\ logged' = s.logged
  /\ threw' = s.threw
  /\ lastOp' = op
  /\ ret' = r
  /\ tog' = tg
  /\ reentered' = IF s.timers = {} \/ timers = {} THEN FALSE
                  ELSE IF op = "mouseenter" /\ "rootMouseenter" \in s.invoked THEN TRUE
                  ELSE reentered
  /\ elements' = s.elements
  /\ UNCHANGED <<page, pageStep>>
  /\ reshown' = /\ timers # {}
                /\ s.timers = timers
                /\ reshown \/ (~isVisible(Cur) /\ isVisible(s))
  /\ pendingHides' =
       IF op \in {"show", "toggle"} \/ (op = "catalystClick" /\ "catalystClick" \in s.invoked)
       THEN {}
       ELSE pendingHides
            \cup (IF op = "timerExpire" /\ ~isMouseCursorInsideDropdown THEN {"timer"} ELSE {})
            \cup (IF \E i \in 1..Len(s.emitted) : s.emitted[i] = "hideAfterResize"
                  THEN {"resize"} ELSE {})

\* The contents callers render: HTML strings, "" for an empty or absent one.
ContentInputs == {"", "a", "b"}

\* Calls of the public methods, on an instance whose constructor ran to its
\* end and that was not destroyed.
Show ==
  /\ ~destroyed
  /\ elements.defined
  /\ Commit(show(Begin), "show", "undefined", NoTog)
  /\ UNCHANGED destroyed
  /\ rendered' = ""
  /\ clickTarget' = ""

Hide ==
  /\ ~destroyed
  /\ elements.defined
  /\ Commit(hide(Begin), "hide", "undefined", NoTog)
  /\ UNCHANGED destroyed
  /\ rendered' = ""
  /\ clickTarget' = ""

Toggle ==
  /\ ~destroyed
  /\ elements.defined
  /\ LET r == toggle(Begin)
     IN Commit(r.st, "toggle", IF r.st.threw THEN "undefined" ELSE BoolStr(r.ret),
               IF r.st.threw THEN NoTog
               ELSE IF tog.n = 1 THEN [n |-> 2, orig |-> tog.orig, ret |-> r.ret]
               ELSE [n |-> 1, orig |-> isVisible(Cur), ret |-> r.ret])
  /\ UNCHANGED destroyed
  /\ rendered' = ""
  /\ clickTarget' = ""

CancelHide ==
  /\ ~destroyed
  /\ elements.defined
  /\ Commit(cancelHide(Begin), "cancelHide", "undefined", NoTog)
  /\ UNCHANGED destroyed
  /\ rendered' = ""
  /\ clickTarget' = ""

Render ==
  /\ ~destroyed
  /\ elements.defined
  /\ \E x \in ContentInputs, isAppend \in BOOLEAN :
       LET r == render(Begin, x, isAppend)
       IN /\ Commit(r.st, IF isAppend THEN "renderAppend" ELSE "render", BoolStr(r.ret), NoTog)
          /\ rendered' = x
  /\ UNCHANGED destroyed
  /\ clickTarget' = ""

Clear ==
  /\ ~destroyed
  /\ elements.defined
  /\ Commit(clear(Begin), "clear", "undefined", NoTog)
  /\ UNCHANGED destroyed
  /\ rendered' = ""
  /\ clickTarget' = ""

SetPosition ==
  /\ ~destroyed
  /\ elements.defined
  /\ Commit(setPosition(Begin), "setPosition", "undefined", NoTog)
  /\ UNCHANGED destroyed
  /\ rendered' = ""
  /\ clickTarget' = ""

\* The offsets callers pass, in half pixels, and a value that is no number.
OffsetInputs == {0 - 3, 0 - 2, 0, 2, NotNumeric}

SetPositionOffset ==
  /\ ~destroyed
  /\ elements.defined
  /\ \E x \in OffsetInputs, y \in OffsetInputs :
       Commit(setPositionOffset(Begin, x, y), "setPositionOffset", "undefined", NoTog)
  /\ UNCHANGED destroyed
  /\ rendered' = ""
  /\ clickTarget' = ""

Subscribe ==
  /\ ~destroyed
  /\ elements.defined
  /\ \E eventName \in SubscribeNames, callback \in Callbacks, once \in BOOLEAN :
       /\ Binding("catalyst", eventName, callback, once) \notin bound
       /\ Commit(subscribe(Begin, eventName, callback, once), "subscribe", "true", NoTog)
  /\ UNCHANGED destroyed
  /\ rendered' = ""
  /\ clickTarget' = ""

Unsubscribe ==
  /\ ~destroyed
  /\ elements.defined
  /\ \E eventName \in SubscribeNames, callback \in Callbacks \cup {"undefined"} :
       Commit(unsubscribe(Begin, eventName, callback), "unsubscribe", "true", NoTog)
  /\ UNCHANGED destroyed
  /\ rendered' = ""
  /\ clickTarget' = ""

Destroy ==
  /\ ~destroyed
  /\ elements.defined
  /\ Commit(destroy(Begin), "destroy", "undefined", NoTog)
  /\ destroyed' = TRUE
  /\ rendered' = ""
  /\ clickTarget' = ""

\* Events of the page, the timer and the animations; they do not stop when
\* the instance is destroyed.
CatalystClick ==
  /\ Commit(DispatchCatalystClick(Begin), "catalystClick", "undefined", NoTog)
  /\ UNCHANGED destroyed
  /\ rendered' = ""
  /\ clickTarget' = "catalyst"

BodyClick ==
  /\ \E evTarget \in ClickTargets \ {"catalyst"} :
       /\ Commit(DispatchBodyClick(Begin, evTarget), "bodyClick", "undefined", NoTog)
       /\ clickTarget' = evTarget
  /\ UNCHANGED destroyed
  /\ rendered' = ""

WindowResize ==
  /\ Commit(DispatchResize(Begin), "resize", "undefined", NoTog)
  /\ UNCHANGED destroyed
  /\ rendered' = ""
  /\ clickTarget' = ""

RootMouseenter ==
  /\ Commit(DispatchMouseenter(Begin), "mouseenter", "undefined", NoTog)
  /\ UNCHANGED destroyed
  /\ rendered' = ""
  /\ clickTarget' = ""

RootMouseleave ==
  /\ Commit(DispatchMouseleave(Begin), "mouseleave", "undefined", NoTog)
  /\ UNCHANGED destroyed
  /\ rendered' = ""
  /\ clickTarget' = ""

TimerExpire ==
  /\ \E id \in timers :
       Commit(HideTimerCallback([Begin EXCEPT !.timers = @ \ {id}]),
              "timerExpire", "undefined", NoTog)
  /\ UNCHANGED destroyed
  /\ rendered' = ""
  /\ clickTarget' = ""

FadeComplete ==
  /\ fxQueue # <<>>
  /\ Commit(CompleteFade(Begin), "fadeComplete", "undefined", tog)
  /\ UNCHANGED destroyed
  /\ rendered' = ""
  /\ clickTarget' = ""

\* Calls of the two queries; they are answered on every instance.
IsVisibleQuery ==
  /\ Commit(Begin, "isVisible", BoolStr(isVisible(Begin)), tog)
  /\ UNCHANGED destroyed
  /\ rendered' = ""
  /\ clickTarget' = ""

GetRootElementQuery ==
  /\ LET r == getRootElement(Begin)
     IN Commit(r.st, "getRootElement", r.ret, tog)
  /\ UNCHANGED destroyed
  /\ rendered' = ""
  /\ clickTarget' = ""

\* The layout of the catalyst in the lifecycle specification, in half pixels.
DefaultBox == [left |-> 4, top |-> 6, width |-> 8, height |-> 4]

\* The configurations of the lifecycle specification.
LifeConfigs ==
  [anchorPoint : {<<>>},
   catalystActiveClass : {"", "active"},
   fadeEffectDuration : {NotNumeric, 0},
   manualShowEnabled : {"undefined", "true"},
   mouseBoundaryDetectionEnabled : {"undefined", "false"}]

Init == \E config \in LifeConfigs : InitOf(DefaultBox, config)

Next ==
  \/ Show
  \/ Hide
  \/ Toggle
  \/ CancelHide
  \/ SetPosition
  \/ Subscribe
  \/ Unsubscribe
  \/ Destroy
  \/ CatalystClick
  \/ BodyClick
  \/ WindowResize
  \/ RootMouseenter
  \/ RootMouseleave
  \/ TimerExpire
  \/ FadeComplete

Spec == Init /\ [][Next]_vars

(***************************************************************************)
(* The content specification: render and clear, with the dropdown shown    *)
(* and hidden around them.                                                 *)
(***************************************************************************)
DefaultConfig ==
  [anchorPoint |-> <<>>, catalystActiveClass |-> "", fadeEffectDuration |-> NotNumeric,
   manualShowEnabled |-> "undefined", mouseBoundaryDetectionEnabled |-> "undefined"]

InitContent == InitOf(DefaultBox, DefaultConfig)

NextContent ==
  \/ Render
  \/ Clear
  \/ Show
  \/ Hide
  \/ FadeComplete
  \/ Destroy

SpecContent == InitContent /\ [][NextContent]_vars

(***************************************************************************)
(* The positioning specification: anchor points, layouts of the catalyst   *)
(* and position offsets.                                                   *)
(***************************************************************************)
\* The anchor points configured: absent (the default "left below"),
\* "right below", "below left", "left", "left above", "left below right",
\* " left below" and "left  below".
AnchorInputs ==
  {<<>>,
   <<"right", " ", "below">>,
   <<"below", " ", "left">>,
   <<"left">>,
   <<"left", " ", "above">>,
   <<"left", " ", "below", " ", "right">>,
   <<" ", "left", " ", "below">>,
   <<"left", " ", " ", "below">>}

\* The layouts of the catalyst, in half pixels.
Boxes == [left : {3, 4}, top : {5}, width : {6}, height : {4, 7}]

PosConfigs ==
  [anchorPoint : AnchorInputs, catalystActiveClass : {""}, fadeEffectDuration : {NotNumeric},
   manualShowEnabled : {"undefined"}, mouseBoundaryDetectionEnabled : {"undefined"}]

InitPos == \E box \in Boxes, config \in PosConfigs : InitOf(box, config)

NextPos ==
  \/ SetPositionOffset
  \/ SetPosition
  \/ Show
  \/ Toggle
  \/ FadeComplete

SpecPos == InitPos /\ [][NextPos]_vars

(***************************************************************************)
(* The construction specification: the constructor with and without a      *)
(* catalyst, the queries, and the lifecycle of the instances constructed.  *)
(***************************************************************************)
InitCtor ==
  \E catalyst \in CatalystInputs, config \in LifeConfigs :
    InitFrom(Dropdown(catalyst, DefaultBox, config))

NextCtor ==
  \/ IsVisibleQuery
  \/ GetRootElementQuery
  \/ Show
  \/ Hide
  \/ Toggle
  \/ FadeComplete
  \/ Destroy

SpecCtor == InitCtor /\ [][NextCtor]_vars

(***************************************************************************)
(* Several instances on one page: unique ids, event namespaces and the     *)
(* listeners jQuery keeps per element.                                     *)
(***************************************************************************)
Insts == {1, 2}
Catalysts == {"c1", "c2"}
RootOf(i) == IF i = 1 THEN "root1" ELSE "root2"

\* What Math.random() returns: the decimal digits after "0."
RandomInputs == {<<1, 2>>, <<0, 1, 2>>, <<3>>}

\* parseInt(str, 10) of a string of decimal digits
RECURSIVE ParseDigits(_)
ParseDigits(ds) ==
  IF ds = <<>> THEN 0
  ELSE 10 * ParseDigits(SubSeq(ds, 1, Len(ds) - 1)) + ds[Len(ds)]

\* _getUniqueId(): Math.random().toString() is "0." and the digits; replace
\* drops the "." and parseInt reads the rest.
_getUniqueId(inst, random) ==
  IF IsNumeric(inst.uniqueId) THEN inst.uniqueId ELSE ParseDigits(<<0>> \o random)

\* _getEventName(eventName): eventName + "." + this.namespace.event. jQuery
\* reads the string as space-separated types, each followed by its own
\* namespaces, so the namespace belongs to the last word only. eventName is
\* a sequence of words; the namespace "module-dropdown-" + id is kept as id.
_getEventName(inst, eventName) ==
  [k \in 1..Len(eventName) |->
     [type |-> eventName[k],
      ns |-> IF k = Len(eventName) THEN {inst.namespace} ELSE {}]]

\* The elements an event triggered on elem reaches while bubbling.
Path(elem) == {elem, "body", "window"}

\* jQuery on() / one(): one listener per type of types.
on(p, elem, types, fn, once, owner) ==
  [p EXCEPT !.handlers = @ \cup
     {[elem |-> elem, type |-> types[k].type, ns |-> types[k].ns, fn |-> fn,
       once |-> once, owner |-> owner] : k \in 1..Len(types)}]

\* The listeners of elem that off(types, fn) removes: a type without
\* namespace matches the listeners of every namespace.
OffMatches(p, elem, types, fn) ==
  {h \in p.handlers :
     /\ h.elem = elem
     /\ \E k \in 1..Len(types) : types[k].type = h.type /\ types[k].ns \subseteq h.ns
     /\ fn = "undefined" \/ h.fn = fn}

\* jQuery off(types, fn)
off(p, elem, types, fn) ==
  [p EXCEPT !.handlers = @ \ OffMatches(p, elem, types, fn),
            !.removed = @ \cup OffMatches(p, elem, types, fn)]

\* jQuery off("." + namespace)
offNamespace(p, elem, namespace) ==
  LET hs == {h \in p.handlers : h.elem = elem /\ namespace \in h.ns}
  IN [p EXCEPT !.handlers = @ \ hs, !.removed = @ \cup hs]

\* jQuery trigger(type + "." + namespace): the listeners of the type that
\* carry the namespace run, the ones bound with one() are unbound.
trigger(p, elem, type, namespace) ==
  LET hs == {h \in p.handlers :
               h.elem \in Path(elem) /\ h.type = type /\ namespace \in h.ns}
  IN [p EXCEPT !.handlers = @ \ {h \in hs : h.once},
               !.invoked = @ \cup hs]

\* _fireCustomEvent(eventName) of instance i
_fireCustomEventOn(p, i, eventName) ==
  trigger(p, p.instances[i].catalyst, eventName, p.instances[i].namespace)

\* subscribe(eventName, callback, once) of instance i
subscribeOn(p, i, eventName, callback, once) ==
  on(p, p.instances[i].catalyst, _getEventName(p.instances[i], eventName),
     callback, once = TRUE, i)

\* unsubscribe(eventName, callback) of instance i
unsubscribeOn(p, i, eventName, callback) ==
  off(p, p.instances[i].catalyst, _getEventName(p.instances[i], eventName), callback)

\* destroy() of instance i; $(el).remove() selects no node of the page.
destroyOn(p, i) ==
  LET p1 == _fireCustomEventOn(p, i, "destroy")
      p2 == offNamespace(p1, p1.instances[i].catalyst, p1.instances[i].namespace)
  IN [p2 EXCEPT !.data[p.instances[i].catalyst] = NotNumeric]

\* _initialize(config) of instance i with the default configuration.
_initializeOn(p, i, random) ==
  LET uniqueId == _getUniqueId(p.instances[i], random)
      p1 == [p EXCEPT !.instances[i].uniqueId = uniqueId,
                      !.instances[i].namespace = uniqueId]
      inst == p1.instances[i]
      p2 == [p1 EXCEPT !.data[inst.catalyst] = uniqueId, !.data[RootOf(i)] = uniqueId]
      p3 == on(p2, inst.catalyst, _getEventName(inst, <<"click">>), "catalystClick", FALSE, i)
      p4 == on(p3, RootOf(i), _getEventName(inst, <<"mouseenter">>), "rootMouseenter", FALSE, i)
      p5 == on(p4, RootOf(i), _getEventName(inst, <<"mouseleave">>), "rootMouseleave", FALSE, i)
      p6 == on(p5, "window", _getEventName(inst, <<"resize">>), "windowResize", FALSE, i)
      p7 == on(p6, "body", _getEventName(inst, <<"click">>), "bodyClick", FALSE, i)
  IN _fireCustomEventOn(p7, i, "initialize")

\* new Dropdown(catalyst) as instance i
DropdownOn(p, i, catalyst, random) ==
  _initializeOn([p EXCEPT !.instances[i] =
                   [catalyst |-> catalyst, uniqueId |-> NotNumeric, namespace |-> NotNumeric]],
                i, random)

EmptyPage ==
  [instances |-> [i \in Insts |-> [catalyst |-> "", uniqueId |-> NotNumeric,
                                   namespace |-> NotNumeric]],
   handlers |-> {},
   data |-> [e \in Catalysts \cup {RootOf(i) : i \in Insts} |-> NotNumeric],
   invoked |-> {},
   removed |-> {}]

\* The page as the next call finds it.
BeginPage ==
  [instances |-> page.instances, handlers |-> page.handlers, data |-> page.data,
   invoked |-> {}, removed |-> {}]

PageSubscriptions(p) == {h \in p.handlers : h.fn \notin InternalFns}

CommitPage(p, op, i) ==
  /\ Cardinality(PageSubscriptions(p)) <= MaxPageSubs
  /\ page' = [instances |-> p.instances, handlers |-> p.handlers, data |-> p.data]
  /\ pageStep' = [op |-> op, inst |-> i, invoked |-> p.invoked, removed |-> p.removed]
  /\ UNCHANGED <<anchorPoint, catalystActiveClass, fadeEffectDuration, isManualShowEnabled,
                 isMouseBoundaryDetectionEnabled, isMouseCursorInsideDropdown,
                 positionOffset, hideTimer, timers, catalystBox, catalystHasActiveClass,
                 document, display, fxQueue, rootCss, content, bound, destroyed, lastOp,
                 emitted, invoked, logged, threw, ret, tog, rendered, reentered, elements,
                 clickTarget, pendingHides, reshown>>

\* The event names callers pass: one word, or two separated by a space.
EventNameInputs == {<<"hide">>, <<"click">>, <<"hide", "show">>}

\* The custom events whose listeners the page follows.
FiredInputs == {"hide", "show", "render"}

SubscribeOn ==
  \E i \in Insts, eventName \in EventNameInputs, callback \in Callbacks, once \in BOOLEAN :
    CommitPage(subscribeOn(BeginPage, i, eventName, callback, once), "subscribe", i)

UnsubscribeOn ==
  \E i \in Insts, eventName \in EventNameInputs, callback \in Callbacks \cup {"undefined"} :
    CommitPage(unsubscribeOn(BeginPage, i, eventName, callback), "unsubscribe", i)

\* An operation of instance i reaches _fireCustomEvent(eventName).
FireOn ==
  \E i \in Insts, eventName \in FiredInputs :
    CommitPage(_fireCustomEventOn(BeginPage, i, eventName), "fire", i)

DestroyOn ==
  \E i \in Insts : CommitPage(destroyOn(BeginPage, i), "destroy", i)

\* Instance 1 on catalyst c1, then instance 2 on c1 or on c2.
InitPage ==
  /\ InitInstance(Dropdown("element", DefaultBox, DefaultConfig))
  /\ \E catalyst \in Catalysts, r1 \in RandomInputs, r2 \in RandomInputs :
       LET p == DropdownOn(DropdownOn(EmptyPage, 1, "c1", r1), 2, catalyst, r2)
       IN /\ page = [instances |-> p.instances, handlers |-> p.handlers, data |-> p.data]
          /\ pageStep = [op |-> "new", inst |-> 2, invoked |-> p.invoked, removed |-> {}]

NextPage ==
  \/ SubscribeOn
  \/ UnsubscribeOn
  \/ FireOn
  \/ DestroyOn

SpecPage == InitPage /\ [][NextPage]_vars

(***************************************************************************)
(* Properties.                                                             *)
(***************************************************************************)
\* The fields of the instance and the page, without the bookkeeping of steps.
ProgState ==
  <<anchorPoint, catalystActiveClass, fadeEffectDuration, isManualShowEnabled,
    isMouseBoundaryDetectionEnabled, isMouseCursorInsideDropdown, positionOffset,
    hideTimer, timers, catalystBox, catalystHasActiveClass, document, display,
    fxQueue, rootCss, content, bound, elements>>

Count(seq, e) == Cardinality({i \in 1..Len(seq) : seq[i] = e})

FadeOutInFlight == fxQueue # <<>> /\ Head(fxQueue) = "out"

\* The events of the page the instance listens to.
PageEvents == {"catalystClick", "bodyClick", "resize", "mouseenter", "mouseleave"}

\* C1: once destroy() has returned, an event of the page (a click on the
\* catalyst or on document.body, a resize, a mouseenter or mouseleave on the
\* root) runs no internal handler and no subscriber callback, and changes
\* neither the visibility nor the hide timer.
C1_NoListenerAfterDestroy ==
  [][(destroyed /\ lastOp' \in PageEvents) =>
       /\ invoked' = {}
       /\ display' = display
       /\ hideTimer' = hideTimer
       /\ timers' = timers]_vars

\* C2: after two consecutive toggle() calls (fades may complete in between
\* or not), once no fade is in flight the dropdown has the visibility it had
\* before the first call.
C2_ToggleTwiceRestores ==
  (tog.n = 2 /\ fxQueue = <<>>) => (isVisible(Cur) = tog.orig)

\* C3: a hide() call while a fade-out is in flight changes nothing and emits
\* nothing; beforeHide is emitted once, by the step that starts a fade-out,
\* and hide once, by the step that completes it.
C3_HideDuringFadeOutIsNoOp ==
  [][/\ (FadeOutInFlight /\ lastOp' = "hide") => (ProgState' = ProgState /\ emitted' = <<>>)
     /\ Count(emitted', "beforeHide") <= 1
     /\ Count(emitted', "hide") <= 1
     /\ (~FadeOutInFlight /\ FadeOutInFlight') => Count(emitted', "beforeHide") = 1
     /\ Count(emitted', "beforeHide") = 1 =>
          /\ ~FadeOutInFlight
          /\ FadeOutInFlight' \/ (fadeEffectDuration = 0 /\ Count(emitted', "hide") = 1)
     /\ (FadeOutInFlight /\ lastOp' = "fadeComplete") =>
          (Count(emitted', "hide") = 1 /\ ~FadeOutInFlight')
     /\ Count(emitted', "hide") = 1 =>
          \/ FadeOutInFlight /\ lastOp' = "fadeComplete"
          \/ fadeEffectDuration = 0 /\ Count(emitted', "beforeHide") = 1]_vars

\* A hide() call arrived while a fade-out was in flight.
C3_Witness ==
  lastOp = "hide" /\ FadeOutInFlight /\ emitted = <<>>

\* C4: the value toggle() returned is the visibility of the dropdown once
\* the fades in flight after the call have completed.
C4_ToggleReturnsVisibility ==
  (tog.n >= 1 /\ fxQueue = <<>>) => (isVisible(Cur) = tog.ret)

\* C5: a mouseenter on the root while the hide timer is pending cancels the
\* pending hide: no timer is pending after the mouseenter, and the timer
\* hides nothing.
C5_ReenterCancelsPendingHide ==
  [][/\ (lastOp' = "mouseenter" /\ timers # {}) => (timers' = {} /\ hideTimer' = 0)
     /\ (lastOp' = "timerExpire" /\ reentered) => Count(emitted', "beforeHide") = 0]_vars

\* C6: with mouse-boundary detection disabled the hide timer is never set,
\* isMouseCursorInsideDropdown stays false and neither mouseEnterDropdown
\* nor mouseLeaveDropdown is emitted.
C6_NoBoundaryDetection ==
  ~isMouseBoundaryDetectionEnabled =>
    /\ hideTimer = 0
    /\ timers = {}
    /\ ~isMouseCursorInsideDropdown
    /\ Count(emitted, "mouseEnterDropdown") = 0
    /\ Count(emitted, "mouseLeaveDropdown") = 0

\* A mouseleave reached the visible root of an instance without detection.
C6_Witness ==
  ~isMouseBoundaryDetectionEnabled /\ lastOp = "mouseleave" /\ isVisible(Cur)

C8_LeftBelow ==
  (/\ lastOp = "setPosition"
   /\ anchorPoint = <<"left", " ", "below">>
   /\ positionOffset.x % 2 = 0
   /\ positionOffset.y % 2 = 0) =>
    LET p == getCatalystPosition(Cur)
    IN /\ rootCss["top"] = Px(p.y + p.h + positionOffset.y \div 2)
       /\ rootCss["left"] = Px(p.x + positionOffset.x \div 2)
       /\ rootCss["bottom"] = Auto
       /\ rootCss["right"] = Auto
       /\ emitted = <<"position">>

\* setPosition() ran with "left below" and an offset of (1, -1) pixels.
C8_Witness ==
  /\ lastOp = "setPosition"
  /\ anchorPoint = <<"left", " ", "below">>
  /\ positionOffset = [x |-> 2, y |-> 0 - 2]
  /\ catalystBox.height = 7

\* An anchor point that is not two tokens separated by one space, each the
\* name of a strategy.
InvalidAnchor(a) ==
  LET tokens == split(a)
  IN ~(Len(tokens) = 2 /\ \A i \in 1..Len(tokens) : tokens[i] \in StrategyNames)

\* C9: with an invalid anchor point, setPosition(), show() and toggle() log
\* an error and return without an exception.
C9_InvalidAnchorIsLogged ==
  (InvalidAnchor(anchorPoint) /\ lastOp \in {"setPosition", "show", "toggle"}) =>
    (~threw /\ logged # <<>>)

\* C10: the root and the content node are in the document until destroy(),
\* and no longer after it.
C10_OneDomPair ==
  /\ ~destroyed => {RootEl, ContentEl} \subseteq document
  /\ destroyed => (RootEl \notin document /\ ContentEl \notin document)

\* C11: instances do not cross-trigger: a custom event fired by one
\* instance runs no listener of another instance, and unsubscribe() or
\* destroy() of one instance removes no listener of another.
C11_NoCrossTrigger ==
  /\ \A h \in pageStep.invoked : h.owner = pageStep.inst
  /\ \A h \in pageStep.removed : h.owner = pageStep.inst

\* C12: with manualShowEnabled a click on the catalyst leaves the visibility
\* and emits none of position, beforeShow, show, beforeHide and hide;
\* without it a click on the catalyst of a live instance does what one
\* toggle does.
C12_ManualShow ==
  [][(lastOp' = "catalystClick" /\ elements.defined /\ ~destroyed) =>
       IF isManualShowEnabled
       THEN /\ display' = display
            /\ \A e \in {"position", "beforeShow", "show", "beforeHide", "hide"} :
                 Count(emitted', e) = 0
       ELSE LET r == _toggle(Begin).st
            IN /\ display' = r.display
               /\ fxQueue' = r.fxQueue
               /\ emitted' = r.emitted
               /\ catalystHasActiveClass' = r.catalystHasActiveClass]_vars

\* C13: with mouse-boundary detection disabled, an event of the page that
\* starts a hide (emits beforeHide) is a click.
C13_ClickOnly ==
  (/\ ~isMouseBoundaryDetectionEnabled
   /\ lastOp \in PageEvents
   /\ Count(emitted, "beforeHide") > 0) =>
    lastOp \in {"catalystClick", "bodyClick"}

\* C14: with a catalystActiveClass configured, the catalyst carries the
\* class in every state in which isVisible() is true.
C14_ActiveClassWhileVisible ==
  (catalystActiveClass # "" /\ isVisible(Cur)) => catalystHasActiveClass

\* C15: show() emits position, then beforeShow, before it returns; every
\* beforeShow adds one fade-in to the queue and every fade-in that completes
\* emits one show, so each show() gets one show event, at the completion of
\* its own fade-in, and no show event comes without its beforeShow.
C15_ShowEvents ==
  [][/\ lastOp' = "show" =>
          /\ ~threw'
          /\ emitted' = IF fadeEffectDuration = 0
                        THEN <<"position", "beforeShow", "show">>
                        ELSE <<"position", "beforeShow">>
     /\ Count(emitted', "beforeShow") <= 1
     /\ Count(emitted', "show") <= 1
     /\ Count(fxQueue', "in") - Count(fxQueue, "in")
          = Count(emitted', "beforeShow") - Count(emitted', "show")
     /\ (lastOp' = "fadeComplete" /\ Head(fxQueue) = "in") => Count(emitted', "show") = 1
     /\ Count(emitted', "show") = 1 =>
          \/ lastOp' = "fadeComplete" /\ Head(fxQueue) = "in"
          \/ fadeEffectDuration = 0 /\ Count(emitted', "beforeShow") = 1]_vars

\* show() was called while a fade-out was in flight.
C15_Witness ==
  lastOp = "show" /\ fxQueue = <<"out", "in">> /\ emitted = <<"position", "beforeShow">>

\* C16: without a catalyst the constructor logs and throws nothing, builds
\* no DOM, binds no listener and emits no initialize; on that instance
\* isVisible() returns false and getRootElement() returns null, without an
\* exception.
C16_DegradedInstance ==
  ~elements.defined =>
    /\ document = {}
    /\ bound = {}
    /\ Count(emitted, "initialize") = 0
    /\ lastOp = "new" => (logged = <<"no catalyst specified">> /\ ~threw)
    /\ lastOp = "isVisible" => (ret = "false" /\ ~threw)
    /\ lastOp = "getRootElement" => (ret = "null" /\ ~threw)

\* C17: once the hide timer has expired with the cursor outside the root,
\* and no show or toggle has followed, the dropdown is not visible when the
\* fades have completed.
C17_ExpiryHides ==
  ("timer" \in pendingHides /\ fxQueue = <<>>) => ~isVisible(Cur)

\* C18: at most one hide timer is pending and this.hideTimer is its handle;
\* the handle and the timer are gone after the timer's callback and after
\* cancelHide(); only a mouseleave on a visible dropdown with no timer
\* pending starts a timer.
C18_OneHideTimer ==
  /\ [](/\ Cardinality(timers) <= 1
        /\ (hideTimer = 0) = (timers = {})
        /\ hideTimer # 0 => timers = {hideTimer})
  /\ [][/\ lastOp' \in {"timerExpire", "cancelHide"} => (hideTimer' = 0 /\ timers' = {})
        /\ ~(timers' \subseteq timers) =>
             (lastOp' = "mouseleave" /\ timers = {} /\ hideTimer = 0 /\ isVisible(Cur))]_vars

\* A second mouseleave arrived while the timer of the first was pending.
C18_Witness ==
  lastOp = "mouseleave" /\ Cardinality(timers) = 1 /\ reentered

\* C19: a click on document.body hides a visible dropdown with no fade in
\* flight when its target is outside the catalyst and outside the
\* instance's own root (inside the root of another Dropdown included), and
\* hides nothing when its target is inside the instance's own root.
C19_OutsideClickHides ==
  [][lastOp' = "bodyClick" =>
       /\ (isVisible(Cur) /\ fxQueue = <<>> /\ clickTarget' \notin {"catalyst", "ownRoot"}) =>
            Count(emitted', "beforeHide") = 1
       /\ clickTarget' \in {"catalyst", "ownRoot"} => Count(emitted', "beforeHide") = 0]_vars

\* C20: a resize while the dropdown is not visible changes and emits
\* nothing; hideAfterResize comes from a resize of a visible dropdown, and
\* after it, with no show or toggle since, the dropdown is not visible once
\* the fades have completed.
C20_ResizeHides ==
  [][/\ (lastOp' = "resize" /\ ~isVisible(Cur)) => (ProgState' = ProgState /\ emitted' = <<>>)
     /\ Count(emitted', "hideAfterResize") > 0 => (lastOp' = "resize" /\ isVisible(Cur))
     /\ ("resize" \in pendingHides' /\ fxQueue' = <<>>) =>
          ~(display' /\ RootEl \in document')]_vars

\* C21: the expiry of a hide timer that was pending while the dropdown was
\* hidden and shown again hides nothing: it emits no beforeHide and no hide
\* and leaves the root and its fx queue as they were.
C21_StaleTimerHidesNothing ==
  [][(lastOp' = "timerExpire" /\ reshown) =>
       /\ Count(emitted', "beforeHide") = 0
       /\ Count(emitted', "hide") = 0
       /\ display' = display
       /\ fxQueue' = fxQueue]_vars

\* C22: when the expiry of the hide timer starts a hide, no mouseenter on
\* the root was handled since the mouseleave that started that timer.
C22_DelayFromLastLeave ==
  [][(lastOp' = "timerExpire" /\ Count(emitted', "beforeHide") > 0) => ~reentered]_vars

\* C23: subscribe() and unsubscribe() leave the widget's internal handlers
\* bound, so the click handler of the catalyst stays bound until destroy()
\* on an instance that is not in manual mode.
C23_InternalHandlersKept ==
  /\ [][lastOp' \in {"subscribe", "unsubscribe"} =>
          {b \in bound' : b.fn \in InternalFns} = {b \in bound : b.fn \in InternalFns}]_vars
  /\ []((elements.defined /\ ~destroyed /\ ~isManualShowEnabled) =>
          IsBound(Cur, "catalyst", "click", "catalystClick"))

\* C24: with a catalystActiveClass configured, before destroy() and with no
\* fade in flight or queued, the catalyst carries the active class exactly
\* when the dropdown is visible.
C24_ActiveClassIffVisibleWhenIdle ==
  (catalystActiveClass # "" /\ elements.defined /\ ~destroyed /\ fxQueue = <<>>) =>
    (catalystHasActiveClass <=> isVisible(Cur))

\* A resize or a timer expiry asked for a hide during the fade-in, which has
\* now completed: no fade is left, the dropdown is visible with the class.
C24_Witness ==
  /\ lastOp = "fadeComplete" /\ fxQueue = <<>> /\ ~destroyed
  /\ catalystActiveClass # "" /\ pendingHides # {}
  /\ catalystHasActiveClass /\ isVisible(Cur)

====
